---- MODULE Spec2Model ----
(***************************************************************************)
(* A model of CRNSynthesis/solverCaller.py: the cost-decreasing synthesis  *)
(* loop of SolverCallerISAT and SolverCallerDReal (edit_cost, call_solver, *)
(* the solver subprocess), the three output parsers and get_full_solution. *)
(*                                                                         *)
(* Costs are rational numbers with denominator Denom, held as the integer  *)
(* numerator: the code's "cost -= 1" subtracts Denom.                      *)
(***************************************************************************)
EXTENDS Integers, Sequences, FiniteSets, TLC

VARIABLES
    instances,          \* the SolverCaller objects that exist (ids)
    backend,            \* [instance -> "isat" | "dreal"]: the class of the object
    num_modes,          \* [instance -> self.num_modes]
    model_file,         \* the content of the file at model_path: a sequence of lines
    files,              \* [path -> sequence of opens for writing]: the result files
    entry,              \* [instance -> the public method that was called, or "none"]
    max_cost,           \* [instance -> argument max_cost]
    min_cost,           \* [instance -> argument min_cost]
    precision,          \* [instance -> argument precision]
    max_depth,          \* [instance -> local variable max_depth]
    cost,               \* [instance -> local variable cost]
    lines,              \* [instance -> edit_cost's local variable lines]
    pc,                 \* [instance -> position in the code]
    result_file_names,  \* [instance -> local list result_file_names]
    solver,             \* [instance -> the subprocess started by sub.call]
    invocations,        \* history: what each started solver was given
    returncodes,        \* history: [instance -> exit codes sub.call returned]
    parser,             \* the parser that is running: "isat", "proof", "json" or "none"
    nread,              \* the number of lines (traces) the parser has read
    current,            \* the line (trace) read last
    var_name,           \* getCRNValues' local variable var_name
    constant_values,    \* the parser's dictionary constant_values
    all_values,         \* the parser's dictionary all_values
    observed,           \* history: [name -> the intervals read for it, in order]
    seen_keys,          \* history: the keys of the traces read
    matched,            \* history: the number of lines read that matched a pattern
    raised,             \* the parser has left its loop with an exception
    flow,               \* the caller's dictionary flow: [species -> expression]
    symbolic_flow,      \* history: flow as the model builder returned it
    derivatives,        \* crn.derivatives: the names to leave out of the result
    vals,               \* the argument vals of the latest get_full_solution
    initial_conditions, \* the first value the latest get_full_solution returned
    parametrised_flow,  \* the second value the latest get_full_solution returned
    ncalls,             \* the number of get_full_solution calls made
    edits,              \* history: the costs edit_cost was called with directly, in order
    before              \* history: the model file as the latest of those calls found it

loopVars == <<instances, backend, num_modes, max_depth, model_file, files, entry, max_cost,
              min_cost, precision, max_depth, cost, lines, pc, result_file_names,
              solver, invocations, returncodes>>

parseVars == <<parser, nread, current, var_name, constant_values, all_values, observed,
               seen_keys, matched, raised>>

asmVars == <<flow, symbolic_flow, derivatives, vals, initial_conditions,
             parametrised_flow, ncalls>>

editVars == <<edits, before>>

vars == <<loopVars, parseVars, asmVars, editVars>>

----------------------------------------------------------------------------
(* Bounds of the model *)

Denom == 2          \* costs are multiples of 1/Denom
MaxCost == 5        \* largest cost numerator drawn for max_cost and min_cost
MaxLines == 2       \* longest model file drawn by Init
MaxEditLines == 3   \* longest model file edit_cost is called on directly
MaxFileLines == 4   \* most lines (traces) a parser reads from one result file
MaxCalls == 2       \* most get_full_solution calls made on one flow
MaxEdits == 3       \* most direct edit_cost calls made on one model file
MaxValues == 2      \* most values of one trace of the structured-trace document
PipeCapacity == 2   \* units of standard error an unread pipe holds

Costs == 0..MaxCost
\* the values drawn for the argument precision, in hundredths
Precisions == {1, 10}

----------------------------------------------------------------------------
(* Text of the model file.  A line is [fmt, val]: the literal template of  *)
(* the line and the text that stands at its %s.                            *)

\* "%s" % cost: the decimal text of the number, as <<integer part, fraction numerator>>
CostStr(c) == <<c \div Denom, c % Denom>>

\* what a solver reading the text back understands
CostOfStr(s) == s[1] * Denom + s[2]

FmtGenMaxCost == "define MAX_COST = %s;"
FmtISATMaxCost == "define MAX_COST = %s; "
FmtDRealMaxCost == "#define MAX_COST %s"
FmtISATNoLimit == "define NO_COST_LIMIT = %s;"
FmtDRealNoLimit1 == "#define NO_COST_LIMIT %s"
FmtDRealNoLimit0 == "#define NO_COST_LIMIT %s;"
FmtOther == "other"

\* "define MAX_COST = " in line
HasMaxCostMarker(line) == line.fmt \in {FmtGenMaxCost, FmtISATMaxCost}

\* "define NO_COST_LIMIT = " in line
HasNoLimitMarker(line) == line.fmt \in {FmtISATNoLimit}

\* mutant: the bound in the file is lowered by one instead of being set
EditLineISATDecrement(line, c) ==
    IF HasMaxCostMarker(line)
    THEN [fmt |-> FmtISATMaxCost, val |-> <<line.val[1] - 1, line.val[2]>>]
    ELSE line

\* mutant: the declaration line is not recognised and passes through
EditLineISATNoMatch(line, c) == line

\* the loop body of edit_cost for one line (iSAT)
EditLineISAT(line, c) ==
    IF HasNoLimitMarker(line)
    THEN [fmt |-> FmtISATNoLimit, val |-> IF c = 0 THEN <<1, 0>> ELSE <<0, 0>>]
    ELSE IF HasMaxCostMarker(line)
         THEN [fmt |-> FmtISATMaxCost, val |-> CostStr(c)]
         ELSE line

\* the loop body of edit_cost for one line (dReal)
EditLineDReal(line, c) ==
    IF HasNoLimitMarker(line)
    THEN IF c = 0 THEN [fmt |-> FmtDRealNoLimit1, val |-> <<1, 0>>]
                  ELSE [fmt |-> FmtDRealNoLimit0, val |-> <<0, 0>>]
    ELSE IF HasMaxCostMarker(line)
         THEN [fmt |-> FmtDRealMaxCost, val |-> CostStr(c)]
         ELSE line

\* mutant: the loop over the lines stops at the first line it rewrote
EditedLinesFirstOnly(b, content, c) ==
    [n \in 1..Len(content) |->
        IF \E m \in 1..(n - 1) : HasMaxCostMarker(content[m]) \/ HasNoLimitMarker(content[m])
        THEN content[n]
        ELSE IF b = "isat" THEN EditLineISAT(content[n], c)
                           ELSE EditLineDReal(content[n], c)]

\* edit_cost up to the end of the first with-block: the lines as rewritten
EditedLines(b, content, c) ==
    [n \in 1..Len(content) |->
        IF b = "isat" THEN EditLineISAT(content[n], c)
                      ELSE EditLineDReal(content[n], c)]

\* a line that declares the cost bound, in any of the syntaxes
IsMaxCostDecl(line) == line.fmt \in {FmtGenMaxCost, FmtISATMaxCost, FmtDRealMaxCost}

\* the cost bounds a solver started now reads from the model file
DeclaredCosts(content) ==
    {CostOfStr(content[n].val) : n \in {m \in 1..Len(content) : IsMaxCostDecl(content[m])}}

InitialCost == MaxCost + Denom

\* lines a generated model file may hold
InitLines ==
    { [fmt |-> FmtOther, val |-> <<0, 0>>],
      [fmt |-> FmtGenMaxCost, val |-> CostStr(InitialCost)],
      [fmt |-> FmtISATNoLimit, val |-> <<0, 0>>] }

ModelFiles == UNION {[1..n -> InitLines] : n \in 1..MaxLines}

\* the model files edit_cost is called on directly
EditFiles == UNION {[1..n -> InitLines] : n \in 1..MaxEditLines}

----------------------------------------------------------------------------
(* Paths *)

\* mutant: an output name that leaves the cost out
ISATOutFileNoCost(c, p) == <<"results", "-isat.txt", <<0, 0>>, p>>

\* out_file of SolverCallerISAT.call_solver
ISATOutFile(c, p) == <<"results", "-isat.txt", CostStr(c), p>>

\* out_file of SolverCallerDReal.call_solver
DRealOutFile(c, p) == <<"results", "-dreal.txt", CostStr(c), p>>

\* the value SolverCallerDReal.call_solver returns
DRealProofFile(nm) == <<"cwd", ".smt2.proof", <<nm - 1, 0>>, 0>>

OutFile(b, c, p) == IF b = "isat" THEN ISATOutFile(c, p) ELSE DRealOutFile(c, p)

\* mutant: the proof file is named after the unrolling depth of the call
ReturnedPathByDepth(b, c, p, nm, md) ==
    IF b = "isat" THEN ISATOutFile(c, p) ELSE <<"cwd", ".smt2.proof", <<md - 1, 0>>, 0>>

\* the value call_solver returns
ReturnedPath(b, c, p, nm, md) ==
    IF b = "isat" THEN ISATOutFile(c, p) ELSE DRealProofFile(nm)

\* open(path, "w"): the file is created or truncated
OpenForWriting(fs, path, who) ==
    IF path \in DOMAIN fs
    THEN [fs EXCEPT ![path] = Append(@, who)]
    ELSE [q \in DOMAIN fs \cup {path} |-> IF q = path THEN <<who>> ELSE fs[q]]

----------------------------------------------------------------------------
(* The synthesis loop *)

IdleSolver == [state |-> "idle", pipe |-> 0, rc |-> 0]

\* __init__ of both classes: num_modes = False becomes 2
NumModes(arg) == IF arg = 0 THEN 2 ELSE arg

\* the values drawn for the constructor argument num_modes (0 is False)
NumModesArgs == {0, 3}

\* the values drawn for the argument max_depth (0 is False)
MaxDepthArgs == {0, 4}

LoopInit(insts, backends, modelfiles) ==
    /\ instances = insts
    /\ backend \in [insts -> backends]
    /\ num_modes \in [insts -> {NumModes(arg) : arg \in NumModesArgs}]
    /\ model_file \in modelfiles
    /\ files = <<>>
    /\ entry = [i \in insts |-> "none"]
    /\ max_cost = [i \in insts |-> 0]
    /\ min_cost = [i \in insts |-> 0]
    /\ precision = [i \in insts |-> 1]
    /\ max_depth = [i \in insts |-> 0]
    /\ cost = [i \in insts |-> 0]
    /\ lines = [i \in insts |-> <<>>]
    /\ pc = [i \in insts |-> "start"]
    /\ result_file_names = [i \in insts |-> <<>>]
    /\ solver = [i \in insts |-> IdleSolver]
    /\ invocations = <<>>
    /\ returncodes = [i \in insts |-> <<>>]
    /\ edits = <<>>
    /\ before = <<>>

\* optimal_synthesis_decreasing_cost up to the while statement
Begin(i, name, mx, mn, p, md) ==
    /\ pc[i] = "start"
    /\ entry' = [entry EXCEPT ![i] = name]
    /\ max_cost' = [max_cost EXCEPT ![i] = mx]
    /\ min_cost' = [min_cost EXCEPT ![i] = mn]
    /\ precision' = [precision EXCEPT ![i] = p]
    /\ max_depth' = [max_depth EXCEPT ![i] = IF md = 0 THEN num_modes[i] ELSE md]
    /\ cost' = [cost EXCEPT ![i] = mx]
    /\ result_file_names' = [result_file_names EXCEPT ![i] = <<>>]
    /\ pc' = [pc EXCEPT ![i] = "while"]
    /\ UNCHANGED <<editVars, parseVars, asmVars, instances, backend, num_modes,
                   model_file, files, lines, solver, invocations, returncodes>>

OptimalSynthesis(i) ==
    \E mx \in Costs, mn \in Costs, p \in Precisions, md \in MaxDepthArgs :
        Begin(i, "optimal_synthesis_decreasing_cost", mx, mn, p, md)

\* single_synthesis: the loop with max_cost = min_cost = cost
SingleSynthesis(i) ==
    \E c \in Costs, p \in Precisions, md \in MaxDepthArgs :
        Begin(i, "single_synthesis", c, c, p, md)

\* mutants of the while condition: strict comparison; min_cost ignored
LoopConditionStrict(c, mn) == c > mn
LoopConditionIgnoreMin(c, mn) == c >= 0

\* the while condition
LoopCondition(c, mn) == c >= mn

\* while true; edit_cost reads the file and rewrites the lines in memory
ReadModel(i) ==
    /\ pc[i] = "while"
    /\ LoopCondition(cost[i], min_cost[i])
    /\ lines' = [lines EXCEPT ![i] = EditedLines(backend[i], model_file, cost[i])]
    /\ pc' = [pc EXCEPT ![i] = "write"]
    /\ UNCHANGED <<editVars, parseVars, asmVars, instances, backend, num_modes, max_depth, model_file, files, entry, max_cost,
                   min_cost, precision, cost, result_file_names, solver, invocations,
                   returncodes>>

\* edit_cost writes the whole file back
WriteModel(i) ==
    /\ pc[i] = "write"
    /\ model_file' = lines[i]
    /\ pc' = [pc EXCEPT ![i] = "call"]
    /\ UNCHANGED <<editVars, parseVars, asmVars, instances, backend, num_modes, max_depth, files, entry, max_cost, min_cost,
                   precision, cost, lines, result_file_names, solver, invocations,
                   returncodes>>

\* call_solver opens out_file and sub.call starts the solver on the model file
CallSolver(i) ==
    /\ pc[i] = "call"
    /\ files' = OpenForWriting(files, OutFile(backend[i], cost[i], precision[i]),
                               <<i, Len(result_file_names[i])>>)
    /\ solver' = [solver EXCEPT ![i] = [state |-> "running", pipe |-> 0, rc |-> 0]]
    /\ invocations' = Append(invocations,
                             [inst |-> i, cost |-> cost[i], max_depth |-> max_depth[i],
                              declared |-> DeclaredCosts(model_file)])
    /\ pc' = [pc EXCEPT ![i] = "wait"]
    /\ UNCHANGED <<editVars, parseVars, asmVars, instances, backend, num_modes, max_depth, model_file, entry, max_cost, min_cost,
                   precision, cost, lines, result_file_names, returncodes>>

\* how sub.call passes stderr: "pipe" for stderr=sub.PIPE
StderrTarget == "pipe"

\* the solver writes one unit to its standard error
SolverWriteStderr(i) ==
    /\ solver[i].state = "running"
    /\ \/ /\ StderrTarget = "pipe"
          /\ solver[i].pipe < PipeCapacity
          /\ solver' = [solver EXCEPT ![i].pipe = @ + 1]
       \/ /\ StderrTarget = "pipe"
          /\ solver[i].pipe = PipeCapacity
          /\ solver' = [solver EXCEPT ![i].state = "blocked"]
       \/ /\ StderrTarget # "pipe"
          /\ UNCHANGED solver
    /\ UNCHANGED <<editVars, parseVars, asmVars, instances, backend, num_modes, max_depth, model_file, files, entry, max_cost,
                   min_cost, precision, cost, lines, pc, result_file_names, invocations,
                   returncodes>>

\* the solver exits with some exit code
SolverExit(i) ==
    /\ solver[i].state = "running"
    /\ \E rc \in {0, 1} : solver' = [solver EXCEPT ![i].state = "exited", ![i].rc = rc]
    /\ files' = IF backend[i] = "dreal"
                THEN OpenForWriting(files, DRealProofFile(num_modes[i]),
                                    <<i, Len(result_file_names[i])>>)
                ELSE files
    /\ UNCHANGED <<editVars, parseVars, asmVars, instances, backend, num_modes, max_depth, model_file, entry, max_cost, min_cost,
                   precision, cost, lines, pc, result_file_names, invocations,
                   returncodes>>

\* mutant: the loop stops at the first failed solver run
ContinueOnSuccessOnly(rc) == rc = 0

\* what the loop does with the exit code sub.call returned: it is not looked at
ContinueAfter(rc) == TRUE

\* mutant: the cost goes down by the smallest step of the schedule grid
NextCostSmallStep(c) == c - 1

\* cost -= 1
NextCost(c) == c - Denom

\* sub.call returns; the path is appended and cost -= 1
CallReturn(i) ==
    /\ pc[i] = "wait"
    /\ solver[i].state = "exited"
    /\ returncodes' = [returncodes EXCEPT ![i] = Append(@, solver[i].rc)]
    /\ result_file_names' =
           [result_file_names EXCEPT
               ![i] = Append(@, ReturnedPath(backend[i], cost[i], precision[i],
                                             num_modes[i], max_depth[i]))]
    /\ cost' = [cost EXCEPT ![i] = NextCost(@)]
    /\ solver' = [solver EXCEPT ![i] = IdleSolver]
    /\ pc' = [pc EXCEPT ![i] = IF ContinueAfter(solver[i].rc) THEN "while" ELSE "done"]
    /\ UNCHANGED <<editVars, parseVars, asmVars, instances, backend, num_modes, max_depth, model_file, files, entry, max_cost,
                   min_cost, precision, lines, invocations>>

\* while false: return result_file_names
Return(i) ==
    /\ pc[i] = "while"
    /\ ~LoopCondition(cost[i], min_cost[i])
    /\ pc' = [pc EXCEPT ![i] = "done"]
    /\ UNCHANGED <<editVars, parseVars, asmVars, instances, backend, num_modes, max_depth, model_file, files, entry, max_cost,
                   min_cost, precision, cost, lines, result_file_names, solver,
                   invocations, returncodes>>

----------------------------------------------------------------------------
(* edit_cost called directly, any number of times, on one model file *)

\* one whole call edit_cost(cost): the file is read, rewritten and written back
EditCost(i) ==
    /\ pc[i] = "start"
    /\ Len(edits) < MaxEdits
    /\ \E c \in Costs :
          /\ model_file' = EditedLines(backend[i], model_file, c)
          /\ edits' = Append(edits, c)
    /\ before' = model_file
    /\ UNCHANGED <<parseVars, asmVars, instances, backend, num_modes, max_depth, files, entry,
                   max_cost, min_cost, precision, cost, lines, pc, result_file_names,
                   solver, invocations, returncodes>>

EditNext == \E i \in instances : EditCost(i)

----------------------------------------------------------------------------
(* The output parsers.  A name is the sequence of its underscore-separated  *)
(* tokens: "k_1" is <<"k", "1">>, and "_".join is the sequence itself.      *)

NoMatch == <<"no match">>
NoName == <<>>              \* var_name = False (or an empty name): not set
Time == <<"time">>

\* dictionary operations
DictSet(d, k, v) == [x \in DOMAIN d \cup {k} |-> IF x = k THEN v ELSE d[x]]
DictPop(d, k) == [x \in DOMAIN d \ {k} |-> d[x]]

\* "solver" in var_name
ContainsSolver(n) == \E k \in 1..Len(n) : n[k] \in {"solver"}

\* "_trigger" in var_name
ContainsTrigger(n) == \E k \in 2..Len(n) : n[k] \in {"trigger"}

\* "mode_" in var_name
ContainsMode(n) == \E k \in 1..(Len(n) - 1) : n[k] \in {"mode"}

\* mutant: the "_trigger" test is left out
IgnoredSolverOnly(n) == ContainsSolver(n) \/ n = <<"inputTime">>

\* the names the iSAT parser does not take as the current variable
Ignored(n) == ContainsSolver(n) \/ ContainsTrigger(n) \/ n = <<"inputTime">>

\* mutant: only the last token is removed
StripSuffixOne(raw) == IF Len(raw) <= 1 THEN <<>> ELSE SubSeq(raw, 1, Len(raw) - 1)

\* "_".join(var_name.split("_")[:-2])
StripSuffix(raw) == IF Len(raw) <= 2 THEN <<>> ELSE SubSeq(raw, 1, Len(raw) - 2)

\* the texts float() converts; on any other text it raises ValueError
IsFloatText(s) == s \in {"0.2", "0.4", "0.5", "0.50", "0.6"}

\* float(s) of the bound texts of the model, in hundredths
ToFloat(s) ==
    CASE s = "0.2" -> 20
      [] s = "0.4" -> 40
      [] s = "0.5" -> 50
      [] s = "0.50" -> 50
      [] s = "0.6" -> 60
      [] OTHER -> 0

\* mutant of the demotion rule: the bounds are compared as numbers
DemotesNumeric(stored, values) ==
    ToFloat(stored[1]) # ToFloat(values[1]) \/ ToFloat(stored[2]) # ToFloat(values[2])

\* mutant of the demotion rule: every later value demotes, equal or not
DemotesAlways(stored, values) == TRUE

\* the comparison of the demotion rule: constant_values[var_name] != values
Demotes(stored, values) == stored # values

\* the first-seen / demote-on-difference rule of both getCRNValues
Record(st, name, values) ==
    IF name \notin DOMAIN st.all_values
    THEN [st EXCEPT !.constant_values = DictSet(@, name, values),
                    !.all_values = DictSet(@, name, values)]
    ELSE IF name \in DOMAIN st.constant_values /\ Demotes(st.constant_values[name], values)
         THEN [st EXCEPT !.constant_values = DictPop(@, name)]
         ELSE st

\* all_values["time"].append(entry): KeyError when there is no "time" entry
AppendTime(st, timeentry) ==
    IF Time \in DOMAIN st.all_values
    THEN [st EXCEPT !.all_values[Time] = Append(@, timeentry)]
    ELSE [st EXCEPT !.raised = TRUE]

\* mutant: the low bound of the pair is taken
TimeEntryLow(values) == values[1]

\* values[1] of the pair matched by p2: the high bound
TimeEntry(values) == values[2]

\* the body of the for loop of SolverCallerISAT.getCRNValues for one line;
\* l.p is the name matched by p (the header pattern), l.p2 the pair matched by p2
ISATStep(st, l) ==
    IF l.p # NoMatch
    THEN [st EXCEPT !.var_name = IF Ignored(l.p) THEN NoName ELSE l.p]
    ELSE IF l.p2 # NoMatch /\ st.var_name # NoName
         THEN IF st.var_name = Time
              THEN AppendTime(st, TimeEntry(l.p2))
              ELSE Record(st, st.var_name, l.p2)
         ELSE st

\* the body of the for loop of SolverCallerDReal.getCRNValues for one line;
\* l.raw is the name matched by p, l.values the two bounds
ProofStep(st, l) ==
    IF l.raw = NoMatch THEN st
    ELSE IF StripSuffix(l.raw) = <<"inputTime">> THEN st
    ELSE IF StripSuffix(l.raw) = <<>> /\ Len(l.raw) >= 2 /\ l.raw[1] = "time"
         THEN IF IsFloatText(l.values[2])
              THEN AppendTime(st, ToFloat(l.values[2]))
              ELSE [st EXCEPT !.raised = TRUE]
    ELSE IF StripSuffix(l.raw) = <<>> THEN st
    ELSE IF ContainsMode(StripSuffix(l.raw)) THEN st
    ELSE Record(st, StripSuffix(l.raw), l.values)

\* single_value: every enclosure of the trace equals the first
SingleValue(values) == \A k \in 1..Len(values) : values[k] = values[1]

\* the body of the for loop of getCRNValuesFromJSON for one trace
JSONStep(st, t) ==
    IF StripSuffix(t.key) = <<>> THEN st
    ELSE [st EXCEPT
            !.constant_values = IF SingleValue(t.values)
                                THEN DictSet(@, StripSuffix(t.key), t.values[1])
                                ELSE @,
            !.all_values = DictSet(@, StripSuffix(t.key), t.values[1])]

ParserState ==
    [var_name |-> var_name, constant_values |-> constant_values, all_values |-> all_values,
     raised |-> raised]

\* the intervals read for each name
Observe(obs, name, intervals) ==
    DictSet(obs, name, (IF name \in DOMAIN obs THEN obs[name] ELSE <<>>) \o intervals)

(* Inputs *)
ISATNames == { <<"k", "1">>, <<"X">>, Time, <<"solver", "steps">>, <<"x", "trigger">>,
               <<"inputTime">> }
Intervals == { <<"0.2", "0.4">>, <<"0.5", "0.6">>, <<"0.50", "0.6">> }
ISATLines ==
    {[p |-> n, p2 |-> NoMatch] : n \in ISATNames}
        \cup {[p |-> NoMatch, p2 |-> v] : v \in Intervals}
        \cup {[p |-> <<"X">>, p2 |-> <<"0.2", "0.4">>], [p |-> NoMatch, p2 |-> NoMatch]}

RawNames == { <<"k", "1", "0", "0">>, <<"k", "1", "1", "0">>, <<"X", "0", "0">>,
              <<"time", "0">>, <<"time", "0", "0">>, <<"inputTime", "0", "0">>,
              <<"mode", "1", "0", "0">>, <<"x", "0">> }
ProofLines ==
    {[raw |-> n, values |-> v] : n \in RawNames, v \in {<<"0.2", "0.4">>, <<"0.5", "0.6">>}}
        \cup {[raw |-> NoMatch, values |-> NoMatch]}

Enclosures == { <<0, 0>>, <<0, 1>> }
TraceKeys == { <<"X", "0", "0">>, <<"X", "1", "0">>, <<"k", "1", "0", "0">>, <<"time", "0">> }
Traces ==
    {[key |-> k, values |-> v] :
        k \in TraceKeys, v \in UNION {[1..n -> Enclosures] : n \in 1..MaxValues}}

AssemblerIdle ==
    /\ flow = <<>>
    /\ symbolic_flow = <<>>
    /\ derivatives = {}
    /\ vals = <<>>
    /\ initial_conditions = <<>>
    /\ parametrised_flow = <<>>
    /\ ncalls = 0

ParserIdle ==
    /\ parser = "none"
    /\ nread = 0
    /\ current = NoMatch
    /\ var_name = NoName
    /\ constant_values = <<>>
    /\ all_values = <<>>
    /\ observed = <<>>
    /\ seen_keys = {}
    /\ matched = 0
    /\ raised = FALSE

LoopIdle == LoopInit({}, {}, {<<>>})

\* mutant: all_values starts without its "time" entry
InitialAllValuesNoTime(which) == <<>>

\* all_values before the loop: the line parsers put an empty "time" list in it
InitialAllValues(which) == IF which = "json" THEN <<>> ELSE [x \in {Time} |-> <<>>]

\* the statements of the parsers before their loop
ParseInit ==
    /\ parser \in {"isat", "proof", "json"}
    /\ nread = 0
    /\ current = NoMatch
    /\ var_name = NoName
    /\ constant_values = <<>>
    /\ all_values = InitialAllValues(parser)
    /\ observed = <<>>
    /\ seen_keys = {}
    /\ matched = 0
    /\ raised = FALSE
    /\ LoopIdle
    /\ AssemblerIdle

Apply(st, l, obs, ismatch) ==
    /\ ~raised
    /\ nread' = nread + 1
    /\ matched' = IF ismatch THEN matched + 1 ELSE matched
    /\ raised' = st.raised
    /\ current' = l
    /\ var_name' = st.var_name
    /\ constant_values' = st.constant_values
    /\ all_values' = st.all_values
    /\ observed' = obs
    /\ seen_keys' = IF parser = "json" THEN seen_keys \cup {l.key} ELSE seen_keys
    /\ UNCHANGED <<parser, loopVars, asmVars, editVars>>

\* SolverCallerISAT.getCRNValues reads one more line
ISATLine ==
    /\ parser = "isat"
    /\ nread < MaxFileLines
    /\ \E l \in ISATLines :
          Apply(ISATStep(ParserState, l), l,
                IF l.p = NoMatch /\ l.p2 # NoMatch /\ var_name # NoName
                THEN Observe(observed, var_name, <<l.p2>>)
                ELSE observed,
                l.p # NoMatch \/ l.p2 # NoMatch)

\* SolverCallerDReal.getCRNValues reads one more line
ProofLine ==
    /\ parser = "proof"
    /\ nread < MaxFileLines
    /\ \E l \in ProofLines :
          Apply(ProofStep(ParserState, l), l,
                IF /\ l.raw # NoMatch
                   /\ StripSuffix(l.raw) \notin {<<>>, <<"inputTime">>}
                   /\ ~ContainsMode(StripSuffix(l.raw))
                THEN Observe(observed, StripSuffix(l.raw), <<l.values>>)
                ELSE observed,
                l.raw # NoMatch)

\* getCRNValuesFromJSON reads one more trace of results["traces"][0]; the keys of
\* one trace group are distinct
JSONTrace ==
    /\ parser = "json"
    /\ nread < MaxFileLines
    /\ \E t \in {u \in Traces : u.key \notin seen_keys} :
          Apply(JSONStep(ParserState, t), t,
                IF StripSuffix(t.key) # <<>>
                THEN Observe(observed, StripSuffix(t.key), t.values)
                ELSE observed,
                TRUE)

ParseNext == ISATLine \/ ProofLine \/ JSONTrace

SpecParse == ParseInit /\ [][ParseNext]_vars


----------------------------------------------------------------------------
(* get_full_solution.  An expression is [symbol -> Free or Number(v)]: the   *)
(* symbols of the expression as the model builder wrote it, each still free  *)
(* or replaced by the number v.                                              *)

Free == [free |-> TRUE, value |-> 0]
Number(v) == [free |-> FALSE, value |-> v]
SF == <<"SF">>

\* (float(vals[val][0]) + float(vals[val][1])) / 2, in hundredths
MeanVal(interval) == (ToFloat(interval[1]) + ToFloat(interval[2])) \div 2

\* mutant: the result of subs is not assigned back
SubsNothing(expr, symbol, value) == expr

\* expr.subs(symbol, value)
Subs(expr, symbol, value) ==
    [x \in DOMAIN expr |-> IF x = symbol /\ expr[x] = Free THEN value ELSE expr[x]]

\* the names of vals that the first loop of get_full_solution substitutes
Parameters(fl, v) == (DOMAIN v \ {Time}) \ DOMAIN fl

\* the first loop of get_full_solution on one expression: one subs per name
RECURSIVE SubsEach(_, _, _)
SubsEach(expr, v, names) ==
    IF names = {} THEN expr
    ELSE LET n == CHOOSE m \in names : TRUE
         IN  SubsEach(Subs(expr, n, Number(MeanVal(v[n]))), v, names \ {n})

\* flow after the two substitution loops of get_full_solution
SubstitutedFlow(fl, v, scale_factor) ==
    [x \in DOMAIN fl |->
        Subs(SubsEach(fl[x], v, Parameters(fl, v)), SF, Number(scale_factor))]

\* initial_conditions as get_full_solution builds it
InitialConditions(fl, v) ==
    [x \in (DOMAIN v \ {Time}) \cap DOMAIN fl |-> MeanVal(v[x])]

\* dict(flow) without the entries of crn.derivatives
WithoutDerivatives(fl, ders) == [x \in DOMAIN fl \ ders |-> fl[x]]

Symbolic(symbols) == [y \in symbols |-> Free]

\* flows of a sketch with species X, rate constant k_1, and optionally the
\* derivative species dX_dt
Flows ==
    { [x \in {<<"X">>} |-> Symbolic({<<"X">>, <<"k", "1">>, SF})],
      [x \in {<<"X">>, <<"dX", "dt">>} |-> Symbolic({<<"X">>, <<"k", "1">>, SF})] }

\* all_values dictionaries a parser returns for such a model
ExtractedValues ==
    UNION {{DictSet(f, Time, <<>>) : f \in [names -> Intervals]} :
              names \in SUBSET {<<"X">>, <<"k", "1">>}}

ScaleFactors == {100, 200}

AssembleInit ==
    /\ flow \in Flows
    /\ symbolic_flow = flow
    /\ derivatives = DOMAIN flow \cap {<<"dX", "dt">>}
    /\ vals = <<>>
    /\ initial_conditions = <<>>
    /\ parametrised_flow = <<>>
    /\ ncalls = 0
    /\ LoopIdle
    /\ ParserIdle

\* one call get_full_solution(crn, flow, vals, scale_factor) by the caller's loop
\* over the result files, on the same flow dictionary
GetFullSolution ==
    /\ ncalls < MaxCalls
    /\ \E v \in ExtractedValues, scale_factor \in ScaleFactors :
          /\ vals' = v
          /\ flow' = SubstitutedFlow(flow, v, scale_factor)
          /\ initial_conditions' = InitialConditions(flow, v)
          /\ parametrised_flow' =
                 WithoutDerivatives(SubstitutedFlow(flow, v, scale_factor), derivatives)
    /\ ncalls' = ncalls + 1
    /\ UNCHANGED <<symbolic_flow, derivatives, loopVars, parseVars, editVars>>

AssembleNext == GetFullSolution

SpecAssemble == AssembleInit /\ [][AssembleNext]_vars

----------------------------------------------------------------------------
Init == LoopInit({1}, {"isat", "dreal"}, ModelFiles) /\ ParserIdle /\ AssemblerIdle

Next ==
    \/ \E i \in instances : OptimalSynthesis(i)
    \/ \E i \in instances : SingleSynthesis(i)
    \/ \E i \in instances : ReadModel(i)
    \/ \E i \in instances : WriteModel(i)
    \/ \E i \in instances : CallSolver(i)
    \/ \E i \in instances : SolverWriteStderr(i)
    \/ \E i \in instances : SolverExit(i)
    \/ \E i \in instances : CallReturn(i)
    \/ \E i \in instances : Return(i)

Spec == Init /\ [][Next]_vars

EditInit == LoopInit({1}, {"isat", "dreal"}, EditFiles) /\ ParserIdle /\ AssemblerIdle

\* the loop on a generated model file, with the interpreter always taking the
\* next step of a method that is running; nothing is assumed about the client
\* calling a method or about the solver
LiveInstances == {1}

LiveInit ==
    /\ LoopInit(LiveInstances, {"isat", "dreal"},
                {<< [fmt |-> FmtGenMaxCost, val |-> CostStr(InitialCost)],
                    [fmt |-> FmtISATNoLimit, val |-> <<0, 0>>] >>})
    /\ ParserIdle
    /\ AssemblerIdle

SpecLive ==
    /\ LiveInit
    /\ [][Next]_vars
    /\ \A i \in LiveInstances :
          /\ WF_vars(ReadModel(i))
          /\ WF_vars(WriteModel(i))
          /\ WF_vars(CallSolver(i))
          /\ WF_vars(CallReturn(i))
          /\ WF_vars(Return(i))

SpecEdit == EditInit /\ [][EditNext]_vars

----------------------------------------------------------------------------
(* Properties of the synthesis loop *)

InvocationsOf(i) == SelectSeq(invocations, LAMBDA r : r.inst = i)

Started(i) == entry[i] # "none"
Returned(i) == pc[i] = "done"

\* the number of cost values max, max - 1, ... that are >= min
ScheduleLength(mx, mn) == IF mx >= mn THEN (mx - mn) \div Denom + 1 ELSE 0

\* the k-th cost value of the schedule, k from 1
ScheduleCost(mx, k) == mx - (k - 1) * Denom

C2_BoundAtInvocation ==
    \A k \in 1..Len(invocations) :
        invocations[k].declared # {} => invocations[k].declared = {invocations[k].cost}

\* C6: the invoker never waits for a solver that is itself blocked writing its
\* standard error.
C6_NeverBlockedOnStderr ==
    \A i \in instances : ~(pc[i] = "wait" /\ solver[i].state = "blocked")

\* C7: the loop ends only when the schedule is exhausted, whatever the exit codes:
\* a returned run has attempted every cost value of its schedule, each invocation
\* after the model file was edited for it, and holds one path per cost value.
C7_NoEarlyStop ==
    \A i \in instances :
        /\ Len(returncodes[i]) = Len(result_file_names[i])
        /\ Returned(i) =>
              /\ cost[i] < min_cost[i]
              /\ Len(result_file_names[i]) = ScheduleLength(max_cost[i], min_cost[i])
              /\ Len(InvocationsOf(i)) = ScheduleLength(max_cost[i], min_cost[i])
              /\ \A k \in 1..Len(InvocationsOf(i)) :
                     InvocationsOf(i)[k].cost = ScheduleCost(max_cost[i], k)

\* a run whose first solver run failed went on to a second one and returned
C7_Witness ==
    \E i \in instances :
        /\ Returned(i)
        /\ Len(returncodes[i]) >= 2
        /\ returncodes[i][1] = 1

\* C8: in a run of the iSAT loop no result file is opened for writing twice, and
\* the paths collected so far are pairwise distinct.
C8_DistinctResultFiles ==
    \A i \in instances :
        backend[i] = "isat" =>
            /\ \A p \in DOMAIN files :
                   Cardinality({n \in 1..Len(files[p]) : files[p][n][1] = i}) <= 1
            /\ \A k, m \in 1..Len(result_file_names[i]) :
                   k # m => result_file_names[i][k] # result_file_names[i][m]

\* an iSAT run has collected two paths
C8_Witness ==
    \E i \in instances : backend[i] = "isat" /\ Len(result_file_names[i]) >= 2

EmptySchedule(i) == Started(i) /\ max_cost[i] < min_cost[i]

\* C10: a run with max_cost < min_cost collects no path, starts no solver,
\* creates no file and never reads or writes the model file.
C10_EmptySchedule ==
    /\ [](\A i \in instances :
             EmptySchedule(i) =>
                 /\ result_file_names[i] = <<>>
                 /\ InvocationsOf(i) = <<>>
                 /\ lines[i] = <<>>
                 /\ \A p \in DOMAIN files : \A n \in 1..Len(files[p]) : files[p][n][1] # i
                 /\ pc[i] \in {"while", "done"})
    /\ [][(\A i \in instances : EmptySchedule(i) \/ ~Started(i)) =>
             (model_file' = model_file /\ files' = files)]_vars

\* a run with max_cost < min_cost has returned
C10_Witness == \E i \in instances : EmptySchedule(i) /\ Returned(i)

\* C18: a returned run with max_cost >= min_cost, whole or fractional, started
\* its first solver at cost max_cost and its last solver at cost exactly min_cost
C18_InclusiveBothEnds ==
    \A i \in instances :
        (Returned(i) /\ max_cost[i] >= min_cost[i]) =>
            /\ Len(InvocationsOf(i)) >= 1
            /\ InvocationsOf(i)[1].cost = max_cost[i]
            /\ InvocationsOf(i)[Len(InvocationsOf(i))].cost = min_cost[i]

NoIterationRepeated(i) ==
    \A k, m \in 1..Len(InvocationsOf(i)) :
        k < m => InvocationsOf(i)[m].cost < InvocationsOf(i)[k].cost

\* every solver that runs exits
SolversTerminate(i) == (solver[i].state = "running") ~> (solver[i].state = "exited")

\* C23: if every solver the loop starts exits, a started run returns; each
\* iteration ends by lowering the cost by exactly 1 (Denom in numerators), and
\* no cost is run twice
C23_Termination ==
    /\ \A i \in LiveInstances : SolversTerminate(i) => (Started(i) ~> Returned(i))
    /\ [](\A i \in LiveInstances : NoIterationRepeated(i))
    /\ [][\A i \in LiveInstances :
             (pc[i] = "wait" /\ pc'[i] # "wait") => cost'[i] = cost[i] - Denom]_vars

\* a run of three iterations has returned
C23_Witness ==
    \E i \in instances :
        /\ Returned(i)
        /\ Len(InvocationsOf(i)) >= 3
        /\ Len(returncodes[i]) = Len(InvocationsOf(i))

----------------------------------------------------------------------------
(* Properties of the parsers *)

AllEqual(seq) == \A k, m \in 1..Len(seq) : seq[k] = seq[m]

\* C3: after every line read by the line-oriented or the proof parser, each name
\* other than "time" for which intervals I1..In were read is in all_values with
\* value I1, and is missing from constant_values exactly when two of I1..In
\* differ (so a name once removed is not added again: the intervals read only grow).
C3_Demotion ==
    parser \in {"isat", "proof"} =>
        \A n \in DOMAIN observed \ {Time} :
            /\ n \in DOMAIN all_values
            /\ all_values[n] = observed[n][1]
            /\ n \notin DOMAIN constant_values <=> ~AllEqual(observed[n])
            /\ n \in DOMAIN constant_values => constant_values[n] = observed[n][1]

\* a name was demoted by its second interval and then met its first interval again
C3_Witness ==
    /\ parser \in {"isat", "proof"}
    /\ \E n \in DOMAIN observed \ {Time} :
          /\ Len(observed[n]) >= 3
          /\ observed[n][2] # observed[n][1]
          /\ observed[n][3] = observed[n][1]
          /\ n \notin DOMAIN constant_values

\* C4: in the structured-trace parser a name is in constant_values only if all
\* the enclosures read for it, over all the traces that reduce to the name, are
\* identical.
C4_ConstantAcrossTraces ==
    parser = "json" =>
        \A n \in DOMAIN constant_values : AllEqual(observed[n])

\* C15: on every prefix of a result file, the empty one and one whose last
\* line is cut short (it matches no pattern) included, the line-oriented and the
\* proof parser have not raised; while no line read has matched a pattern,
\* constant_values is empty and all_values holds only the empty "time" list
C15_NoRaiseOnTruncated ==
    parser \in {"isat", "proof"} =>
        /\ ~raised
        /\ matched = 0 => /\ constant_values = <<>>
                          /\ DOMAIN all_values = {Time}
                          /\ all_values[Time] = <<>>

\* the parser read lines that matched and then a last line that matches nothing,
\* and holds what the matching lines gave it
C15_Witness ==
    /\ parser \in {"isat", "proof"}
    /\ nread >= 3
    /\ matched = nread - 1
    /\ current \in {[p |-> NoMatch, p2 |-> NoMatch], [raw |-> NoMatch, values |-> NoMatch]}
    /\ DOMAIN all_values # {Time}
    /\ all_values[Time] # <<>>
    /\ ~raised

\* the line read last matched p2 and not p
IsDataLine(l) == l.p = NoMatch /\ l.p2 # NoMatch

\* the header names the claim speaks of
SolverTriggerOrInputTime(n) ==
    ContainsSolver(n) \/ ContainsTrigger(n) \/ n = <<"inputTime">>

\* C16: in the line-oriented parser a header whose name contains "solver" or
\* "_trigger" or is "inputTime" leaves the cursor unset; no such name is a key of
\* either dictionary; and a line read while the cursor is unset changes neither
\* dictionary, so it is not attributed to the variable named before
C16_IgnoredHeaderResets ==
    /\ [](parser = "isat" =>
            /\ \A n \in DOMAIN all_values \cup DOMAIN constant_values :
                   ~SolverTriggerOrInputTime(n)
            /\ (nread >= 1 /\ current.p # NoMatch /\ SolverTriggerOrInputTime(current.p))
                   => var_name = NoName)
    /\ [][(parser = "isat" /\ var_name = NoName /\ var_name' = NoName)
             => UNCHANGED <<constant_values, all_values>>]_vars

\* after a recorded variable and an ignored header, a data line with another
\* interval was read and the variable is still constant
C16_Witness ==
    /\ parser = "isat"
    /\ nread >= 4
    /\ var_name = NoName
    /\ IsDataLine(current)
    /\ \E n \in DOMAIN constant_values : constant_values[n] # current.p2

\* the pairs read by the line-oriented parser while var_name was "time"
TimePairs == IF Time \in DOMAIN observed THEN observed[Time] ELSE <<>>

\* C17: in the line-oriented parser all_values["time"] is the list of the high
\* bounds of the data lines read while the cursor was "time", in the order
\* read; it is never an interval, and "time" is never a key of constant_values
C17_TimeHighBounds ==
    parser = "isat" =>
        /\ Time \notin DOMAIN constant_values
        /\ Time \in DOMAIN all_values
        /\ all_values[Time] = [k \in 1..Len(TimePairs) |-> TimePairs[k][2]]

\* two data lines with different high bounds were read under the "time" header
C17_Witness ==
    /\ parser = "isat"
    /\ Len(TimePairs) >= 2
    /\ TimePairs[1][2] # TimePairs[2][2]
    /\ all_values[Time] = <<TimePairs[1][2], TimePairs[2][2]>>

\* two pairs of bound texts that denote the same numbers
SameNumbers(v, w) == ToFloat(v[1]) = ToFloat(w[1]) /\ ToFloat(v[2]) = ToFloat(w[2])

\* C20: the line-oriented parser compares the pairs of bound texts as texts: a
\* name for which a later pair differs from the first in its text, though it
\* denotes the same numbers, is removed from constant_values, and all_values
\* keeps the texts seen first
C20_RawStringComparison ==
    parser = "isat" =>
        \A n \in DOMAIN observed \ {Time} :
            (\E k \in 1..Len(observed[n]) :
                 observed[n][k] # observed[n][1] /\ SameNumbers(observed[n][k], observed[n][1]))
            => /\ n \notin DOMAIN constant_values
               /\ all_values[n] = observed[n][1]

\* a name was read with "0.5" and then with "0.50" for the same bound, and
\* with nothing else
C20_Witness ==
    /\ parser = "isat"
    /\ \E n \in DOMAIN observed \ {Time} :
          /\ observed[n] = << <<"0.5", "0.6">>, <<"0.50", "0.6">> >>
          /\ n \notin DOMAIN constant_values
          /\ all_values[n] = <<"0.5", "0.6">>

\* a raw name without its last two tokens (nothing is left of one or two tokens)
WithoutLastTwo(r) == [k \in 1..(IF Len(r) > 2 THEN Len(r) - 2 ELSE 0) |-> r[k]]

\* a name with the token "mode" followed by an underscore
HasModeIndicator(n) == \E k \in 1..Len(n) : n[k] = "mode" /\ k < Len(n)

\* the raw name is "time_<n>"
IsTimeMark(r) == Len(r) = 2 /\ r[1] = "time"

\* what reading the matched proof line l did to the dictionaries
ProofLineEffect(l) ==
    IF IsTimeMark(l.raw)
    THEN /\ all_values' = [all_values EXCEPT ![Time] = Append(@, ToFloat(l.values[2]))]
         /\ UNCHANGED constant_values
    ELSE IF \/ WithoutLastTwo(l.raw) = <<>>
            \/ WithoutLastTwo(l.raw) = <<"inputTime">>
            \/ HasModeIndicator(WithoutLastTwo(l.raw))
         THEN UNCHANGED <<constant_values, all_values>>
         ELSE /\ WithoutLastTwo(l.raw) \in DOMAIN all_values'
              /\ DOMAIN all_values' = DOMAIN all_values \cup {WithoutLastTwo(l.raw)}

\* C21: in the proof parser a variable is named by its raw name without the
\* last two tokens; no key of either dictionary contains "mode_", is
\* "inputTime" or is empty; a line "time_<n>" appends its high bound to the
\* time list and adds no key; a line whose name reduces to "inputTime", to a
\* mode name or to nothing changes neither dictionary; any other matched line
\* has its reduced name as a key afterwards
C21_ProofNames ==
    /\ [](parser = "proof" =>
            \A n \in DOMAIN all_values \cup DOMAIN constant_values :
                ~HasModeIndicator(n) /\ n # <<"inputTime">> /\ n # <<>>)
    /\ [][(parser = "proof" /\ nread' = nread + 1 /\ current'.raw # NoMatch)
             => ProofLineEffect(current')]_vars

\* the proof parser read a time mark, a variable and then a mode variable
C21_Witness ==
    /\ parser = "proof"
    /\ nread >= 3
    /\ Len(all_values[Time]) >= 1
    /\ DOMAIN all_values = {Time, <<"k", "1">>}
    /\ current.raw = <<"mode", "1", "0", "0">>

\* C22: after every line or trace read by any of the three parsers, every key
\* of constant_values is a key of all_values with the same value
C22_ConstantWithinAll ==
    parser \in {"isat", "proof", "json"} =>
        \A n \in DOMAIN constant_values :
            n \in DOMAIN all_values /\ constant_values[n] = all_values[n]

----------------------------------------------------------------------------
(* Two loop instances on one model file, not serialized by the caller *)

ConcCosts == {0, Denom}

\* the model file as generated: one declaration of each kind
GeneratedFile ==
    << [fmt |-> FmtGenMaxCost, val |-> CostStr(InitialCost)],
       [fmt |-> FmtISATNoLimit, val |-> <<0, 0>>] >>

ConcInit ==
    /\ LoopInit({1, 2}, {"isat"}, {GeneratedFile})
    /\ num_modes = [i \in {1, 2} |-> NumModes(0)]
    /\ ParserIdle
    /\ AssemblerIdle

ConcOptimalSynthesis(i) ==
    \E mx \in ConcCosts, mn \in ConcCosts :
        Begin(i, "optimal_synthesis_decreasing_cost", mx, mn, 1, 0)

ConcNext ==
    \/ \E i \in instances : ConcOptimalSynthesis(i)
    \/ \E i \in instances : ReadModel(i)
    \/ \E i \in instances : WriteModel(i)
    \/ \E i \in instances : CallSolver(i)
    \/ \E i \in instances : SolverWriteStderr(i)
    \/ \E i \in instances : SolverExit(i)
    \/ \E i \in instances : CallReturn(i)
    \/ \E i \in instances : Return(i)

SpecConc == ConcInit /\ [][ConcNext]_vars

\* the cost values of the schedule of instance i
ScheduleOf(i) ==
    IF Started(i)
    THEN {ScheduleCost(max_cost[i], k) : k \in 1..ScheduleLength(max_cost[i], min_cost[i])}
    ELSE {}

\* C5: with two loop instances on one model file a solver invocation reads the
\* cost bound of its own iteration or one written by the other instance (a cost
\* of the other's schedule); the witness is an invocation that reads the other's.
C5_BoundFromEitherInstance ==
    \A k \in 1..Len(invocations) :
        invocations[k].declared \subseteq
            {invocations[k].cost}
                \cup UNION {ScheduleOf(j) : j \in instances \ {invocations[k].inst}}

\* an invocation read a cost bound that is not the cost of its iteration
C5_Witness ==
    \E k \in 1..Len(invocations) : invocations[k].declared # {invocations[k].cost}

----------------------------------------------------------------------------
(* Properties of get_full_solution *)

\* the free parameters of the symbolic flow that vals gives a value to, and SF,
\* carry in the returned flow the values of this call
FromTheseValuesOnly ==
    /\ DOMAIN initial_conditions = (DOMAIN vals \ {Time}) \cap DOMAIN symbolic_flow
    /\ \A x \in DOMAIN initial_conditions : initial_conditions[x] = MeanVal(vals[x])
    /\ DOMAIN parametrised_flow = DOMAIN symbolic_flow \ derivatives
    /\ \A x \in DOMAIN parametrised_flow :
           \A y \in DOMAIN parametrised_flow[x] :
               y \in Parameters(symbolic_flow, vals) =>
                   parametrised_flow[x][y] = Number(MeanVal(vals[y]))

\* C9: what each get_full_solution call returns is determined by the symbolic
\* flow and the values of that call: every parameter the call's values name has
\* the midpoint of that call's interval in the returned flow.
C9_IndependentAssembly == ncalls >= 1 => FromTheseValuesOnly

\* the symbols still free in the flow a call returned
FreeSymbols(fl) == UNION {{y \in DOMAIN fl[x] : fl[x][y].free} : x \in DOMAIN fl}

\* C14 as stated: the returned flow has no free symbol besides the state
\* variables and time, whatever values mapping the call was given
C14_AsStated ==
    ncalls >= 1 => FreeSymbols(parametrised_flow) \subseteq DOMAIN symbolic_flow \cup {Time}

\* C14: in the returned flow the scale factor and every symbol the call's values
\* name are replaced by numbers; a symbol that is free there is a state
\* variable, time, or a parameter the values mapping has no entry for
C14_NamedSymbolsReplaced ==
    ncalls >= 1 =>
        \A y \in FreeSymbols(parametrised_flow) :
            \/ y \in DOMAIN symbolic_flow \cup {Time}
            \/ y # SF /\ y \notin DOMAIN vals

\* a call was given a value for the rate constant and returned a flow in
\* which only the species is free
C14_Witness ==
    /\ ncalls >= 1
    /\ <<"k", "1">> \in DOMAIN vals
    /\ <<"X">> \in DOMAIN parametrised_flow
    /\ ~parametrised_flow[<<"X">>][<<"k", "1">>].free
    /\ FreeSymbols(parametrised_flow) = {<<"X">>}

----------------------------------------------------------------------------
(* Properties of edit_cost, checked under SpecEdit *)

\* the cost of the latest direct edit_cost call
LastEdit == edits[Len(edits)]

\* the positions of the file that declare the cost bound, in any syntax
MaxCostDecls(content) == {n \in 1..Len(content) : IsMaxCostDecl(content[n])}

\* C11: a second edit_cost call with the cost of the call before it leaves the
\* model file exactly as that call left it, for either backend and any number
\* of declaration lines
C11_Idempotent ==
    (Len(edits) >= 2 /\ edits[Len(edits)] = edits[Len(edits) - 1])
        => model_file = before

\* two calls with one cost below the generated bound were made on a file
\* with more than one cost-bound declaration, and the calls rewrote them
C11_Witness ==
    /\ Len(edits) = 2
    /\ edits[1] = edits[2]
    /\ Cardinality(MaxCostDecls(model_file)) >= 2
    /\ \A n \in MaxCostDecls(model_file) : CostOfStr(model_file[n].val) = LastEdit
    /\ model_file = before

\* a line that declares the cost-limit flag, in any of the syntaxes
IsNoLimitDecl(line) == line.fmt \in {FmtISATNoLimit, FmtDRealNoLimit1, FmtDRealNoLimit0}

\* the flag a solver reads from a cost-limit declaration
FlagOf(line) == line.val[1]

\* the flag that stands for the cost: 1 (limit disabled) exactly for cost 0
FlagFor(c) == IF c = 0 THEN 1 ELSE 0

\* C12: a call edit_cost(cost) keeps the number and the order of the lines,
\* writes back unchanged every line holding neither marker, and rewrites every
\* line holding a marker into the declaration for this cost
C12_OnlyMatchingLines ==
    Len(edits) >= 1 =>
        /\ Len(model_file) = Len(before)
        /\ \A n \in 1..Len(before) :
              IF HasNoLimitMarker(before[n])
              THEN IsNoLimitDecl(model_file[n]) /\ FlagOf(model_file[n]) = FlagFor(LastEdit)
              ELSE IF HasMaxCostMarker(before[n])
                   THEN IsMaxCostDecl(model_file[n])
                        /\ CostOfStr(model_file[n].val) = LastEdit
                   ELSE model_file[n] = before[n]

\* a call rewrote two declaration lines of a file and kept a line between them
C12_Witness ==
    /\ Len(edits) = 1
    /\ Len(before) = 3
    /\ HasMaxCostMarker(before[1])
    /\ before[2].fmt = FmtOther
    /\ HasMaxCostMarker(before[3])
    /\ model_file[1] # before[1]
    /\ model_file[2] = before[2]
    /\ model_file[3] # before[3]

\* C13: after any sequence of edit_cost calls, every cost-limit flag
\* declaration of the file reads 1 exactly when the latest call's cost is 0
C13_FlagReflectsLastCall ==
    Len(edits) >= 1 =>
        \A n \in 1..Len(model_file) :
            IsNoLimitDecl(model_file[n]) => FlagOf(model_file[n]) = FlagFor(LastEdit)

====
